---- MODULE Spec2Model ----
(***************************************************************************)
(* State-machine model of src/multi_agent_presentation.py: the             *)
(* create_presentation loop, the orchestrator decision, the five agents    *)
(* and the final assembly.  The Generation Port (Azure OpenAI chat         *)
(* completion) and the Search Port (Google custom search) are the          *)
(* environment: every call draws its answer, or a raised exception, from   *)
(* a small set.                                                            *)
(*                                                                         *)
(* Text values.  A Python value held in a slot, in `response` or in a      *)
(* memory entry is a record [k, tag, text, c]:                             *)
(*   k = "str"     a string that is not well-formed XML; text = <<>> is "" *)
(*   k = "xml"     a string that ET.fromstring parses: root tag, root      *)
(*                 text (a sequence of characters) and child elements      *)
(*   k = "none"    Python None                                             *)
(*   k = "unbound" a local variable that was never assigned                *)
(***************************************************************************)
EXTENDS Integers, Sequences, FiniteSets, TLC

VARIABLES
    state,        \* the Document State dict of create_presentation
    memory,       \* the memory list: its length and its most recent entry
    response,     \* the local `response` of create_presentation
    next_agent,   \* the local `next_agent` of create_presentation
    pc,           \* position of the build
    result,       \* what create_presentation returned
    error,        \* the exception that ended the build, "" while there is none
    slides,       \* slide_enricher_agent: the parsed outline entries
    i,            \* slide_enricher_agent: index of the entry being enriched
    enriched,     \* slide_enricher_agent: children appended so far
    items,        \* image_finder_agent: search_results["items"]
    idx,          \* image_finder_agent: index of the candidate being judged
    judged,       \* candidates submitted to image_checker_agent in this step
    reply,        \* what the last port call of the step in progress answered
    genCalls,     \* Generation Port calls made by the current step
    searchCalls,  \* Search Port calls made by the current step
    retries       \* unparsable answers received by the current step

vars == <<state, memory, response, next_agent, pc, result, error, slides, i, enriched,
          items, idx, judged, reply, genCalls, searchCalls, retries>>

----------------------------------------------------------------------------
(* Bounds of the model *)

MaxIterations == 6

MaxRetry == 1

MaxCandidates == 3

MaxSlides == 2

----------------------------------------------------------------------------
(* Text values *)

Str(s) == [k |-> "str", tag |-> "", text |-> s, c |-> <<>>]

Xml(tag, text, c) == [k |-> "xml", tag |-> tag, text |-> text, c |-> c]

EMPTY == Str(<<>>)

NONE == [k |-> "none", tag |-> "", text |-> <<>>, c |-> <<>>]

UNBOUND == [k |-> "unbound", tag |-> "", text |-> <<>>, c |-> <<>>]

Garbage == Str(<<"not well-formed">>)

\* ET.fromstring succeeds exactly on well-formed XML text; "" and any other
\* string raise ParseError, None raises TypeError.
Parseable(v) == v.k = "xml"

----------------------------------------------------------------------------
(* Agent names *)

CREATE_SLIDES == "Slide creator"

ENRICH_SLIDES == "Slide enricher"

CREATE_TITLE == "Title creator"

CREATE_QUIZ == "Quiz creator"

FIND_IMAGE == "Image finder"

END == "End process"

Agent == {CREATE_SLIDES, ENRICH_SLIDES, CREATE_TITLE, CREATE_QUIZ, FIND_IMAGE, END}

\* What the orchestrator's chat completion may answer: the six names, or
\* any other text.
Decisions == Agent \cup {"Slide maker"}

InputText == Str(<<"input text">>)

get_initial_state(text) ==
    [input_text |-> text, slides |-> EMPTY, enriched_slides |-> EMPTY,
     title |-> EMPTY, quiz |-> EMPTY, image |-> EMPTY]

----------------------------------------------------------------------------
(* The ports: what a call may answer *)

\* A raised exception (network or service error) in place of an answer.
Fault == [k |-> "exception", tag |-> "", text |-> <<>>, c |-> <<>>]

SlideTitles == <<"A", "B", "C", "D">>

OutlineEntry(n) == Xml("slide", <<SlideTitles[n]>>, <<>>)

Outline(n) == Xml("slides", <<>>, [j \in 1..n |-> OutlineEntry(j)])

\* Answers to slide_creator_agent's prompt: unparsable text, or an outline
\* of 0..MaxSlides entries.
OutlineAnswers == {Garbage} \cup {Outline(n) : n \in 0..MaxSlides}

\* Answers to slide_enricher_agent's prompt for one entry: unparsable text,
\* or a slide carrying the entry's title or another title.
SectionAnswers(entry) ==
    {Garbage, Xml("slide", entry.text, <<>>), Xml("slide", <<"Z">>, <<>>)}

TitleAnswers == {EMPTY, Garbage, Xml("title", <<"T">>, <<>>)}

QuizSize == 3

Quiz(n) == Xml("quiz", <<>>, [j \in 1..n |-> Xml("question", <<SlideTitles[j]>>, <<>>)])

\* Answers to quiz_creator_agent's prompt: "", unparsable text, a quiz with
\* the three questions asked for, or one with a question less.
QuizAnswers == {EMPTY, Garbage, Quiz(QuizSize), Quiz(QuizSize - 1)}

QueryAnswers == {Str(<<"search query">>)}

\* The links of the search results, best match first.
Links == << <<"a">>, <<"b", "&", "c">>, <<"d">>, <<"e", "<", "f">>, <<"g">> >>

\* The decoded JSON of the image search: without an "items" member when
\* nothing was found, else with a list of one or of MaxCandidates results
\* (the Custom Search JSON API omits the member when a query has no result).
SearchAnswers ==
    {[raised |-> FALSE, has_items |-> FALSE, items |-> <<>>]}
        \cup {[raised |-> FALSE, has_items |-> TRUE, items |-> SubSeq(Links, 1, n)] :
                 n \in {1, MaxCandidates}}

\* requests.get or response.json() raising.
SearchFault == [raised |-> TRUE, has_items |-> FALSE, items |-> <<>>]

JudgeAnswers == {Str(<<"True">>), Str(<<"False">>), Str(<<"Yes">>)}

----------------------------------------------------------------------------
(* xml.sax.saxutils.escape and the parse of the image markup *)

EscapeChar(ch) ==
    IF ch = "&" THEN <<"&", "a", "m", "p", ";">>
    ELSE IF ch = "<" THEN <<"&", "l", "t", ";">>
    ELSE IF ch = ">" THEN <<"&", "g", "t", ";">>
    ELSE <<ch>>

RECURSIVE escape(_)
escape(s) == IF s = <<>> THEN <<>> ELSE EscapeChar(Head(s)) \o escape(Tail(s))

StartsWith(s, p) == Len(s) >= Len(p) /\ SubSeq(s, 1, Len(p)) = p

Drop(s, n) == SubSeq(s, n + 1, Len(s))

\* Character data as an XML parser reads it: entity references are
\* decoded; a bare "&" or "<" is not well-formed.
RECURSIVE WellFormedText(_)
WellFormedText(s) ==
    IF s = <<>> THEN TRUE
    ELSE IF StartsWith(s, <<"&", "a", "m", "p", ";">>) THEN WellFormedText(Drop(s, 5))
    ELSE IF StartsWith(s, <<"&", "l", "t", ";">>) THEN WellFormedText(Drop(s, 4))
    ELSE IF StartsWith(s, <<"&", "g", "t", ";">>) THEN WellFormedText(Drop(s, 4))
    ELSE IF Head(s) \in {"&", "<"} THEN FALSE
    ELSE WellFormedText(Tail(s))

RECURSIVE Unescape(_)
Unescape(s) ==
    IF s = <<>> THEN <<>>
    ELSE IF StartsWith(s, <<"&", "a", "m", "p", ";">>) THEN <<"&">> \o Unescape(Drop(s, 5))
    ELSE IF StartsWith(s, <<"&", "l", "t", ";">>) THEN <<"<">> \o Unescape(Drop(s, 4))
    ELSE IF StartsWith(s, <<"&", "g", "t", ";">>) THEN <<">">> \o Unescape(Drop(s, 4))
    ELSE <<Head(s)>> \o Unescape(Tail(s))

\* The string f"<image>{body}</image>".
ImageMarkup(body) ==
    IF WellFormedText(body) THEN Xml("image", Unescape(body), <<>>)
    ELSE Str(<<"<image>">> \o body \o <<"</image>">>)

----------------------------------------------------------------------------
(* memory: the list is only appended to and never read; the model keeps   *)
(* its length and the entry appended last.                                 *)

NoEntry == [role |-> "", content |-> UNBOUND]

EmptyMemory == [len |-> 0, last |-> NoEntry]

MemoryAppend(m, role, content) ==
    [len |-> m.len + 1, last |-> [role |-> role, content |-> content]]

----------------------------------------------------------------------------
(* The completion check and its notes *)

\* Incomplete without the quiz test of line 377.
Incomplete_NoQuizTest(s) ==
    \/ s.enriched_slides = EMPTY
    \/ s.title = EMPTY
    \/ s.image = EMPTY

Incomplete(s) ==
    \/ s.enriched_slides = EMPTY
    \/ s.title = EMPTY
    \/ s.image = EMPTY
    \/ s.quiz = EMPTY

NoteEnriched == Str(<<"The presentation is not complete. Please finish enriched slides.">>)

NoteTitle == Str(<<"The presentation is not complete. Please finish the title.">>)

NoteImage == Str(<<"The presentation is not complete. Please find an image.">>)

NoteQuiz == Str(<<"The presentation is not complete. Please create a quiz.">>)

\* The if/elif chain of lines 380-391 with the quiz tested before the
\* title and the image.
CompletionNote_QuizFirst(s) ==
    IF s.enriched_slides = EMPTY THEN NoteEnriched
    ELSE IF s.quiz = EMPTY THEN NoteQuiz
    ELSE IF s.title = EMPTY THEN NoteTitle
    ELSE NoteImage

CompletionNote(s) ==
    IF s.enriched_slides = EMPTY THEN NoteEnriched
    ELSE IF s.title = EMPTY THEN NoteTitle
    ELSE IF s.image = EMPTY THEN NoteImage
    ELSE NoteQuiz

QuizFailed == Str(<<"Quiz creator failed to generate a quiz. Please create enriched slides first.">>)

TitleFailed == Str(<<"Title creator failed to generate a title. Please create enriched slides first.">>)

ImageFailed == Str(<<"Image finder failed to find an image. Please create enriched slides first.">>)

----------------------------------------------------------------------------
(* The assembly *)

\* list.insert that ignores the index and puts the element last.
Insert_Appends(s, at, x) == Append(s, x)

\* list.insert(at, x) on the children of an element, at counted from 0.
Insert(s, at, x) ==
    LET n == IF at > Len(s) THEN Len(s) ELSE at
    IN  SubSeq(s, 1, n) \o <<x>> \o SubSeq(s, n + 1, Len(s))

\* The four ET.fromstring calls of the assembly all succeed.
AssemblyParses(s) ==
    /\ Parseable(s.enriched_slides)
    /\ Parseable(s.title)
    /\ Parseable(s.image)
    /\ Parseable(s.quiz)

Assemble(s) ==
    LET root == s.enriched_slides
        c1 == Insert(root.c, 0, s.title)
        c2 == Insert(c1, 1, s.image)
        c3 == Append(c2, s.quiz)
    IN  Xml(root.tag, root.text, c3)

----------------------------------------------------------------------------
(* The single-call agents.  Each yields what the function returns, the     *)
(* number of Generation Port calls it made and whether the call raised.    *)

Outcome(ret, gen, raised) == [ret |-> ret, gen |-> gen, raised |-> raised]

\* quiz_creator_agent without the test of lines 146-147.
quiz_creator_agent_NoPrecondition(s, answer) ==
    IF answer = Fault THEN Outcome(NONE, 1, TRUE)
    ELSE Outcome(answer, 1, FALSE)

quiz_creator_agent(s, answer) ==
    IF s.enriched_slides = EMPTY THEN Outcome(EMPTY, 0, FALSE)
    ELSE IF answer = Fault THEN Outcome(NONE, 1, TRUE)
    ELSE Outcome(answer, 1, FALSE)

\* title_creator_agent without the precondition of lines 189-190.
title_creator_agent_NoPrecondition(s, answer) ==
    IF answer = Fault THEN Outcome(NONE, 1, TRUE)
    ELSE Outcome(answer, 1, FALSE)

title_creator_agent(s, answer) ==
    IF s.enriched_slides = EMPTY THEN Outcome(EMPTY, 0, FALSE)
    ELSE IF answer = Fault THEN Outcome(NONE, 1, TRUE)
    ELSE Outcome(answer, 1, FALSE)

\* A judgment that takes every answer but "False" for an acceptance.
image_checker_agent_NotFalse(answer) ==
    IF answer = Fault THEN FALSE ELSE answer # Str(<<"False">>)

\* image_checker_agent: an exception of the call is caught and answers
\* False; otherwise the answer is compared with "True".
image_checker_agent(answer) ==
    IF answer = Fault THEN FALSE ELSE answer = Str(<<"True">>)

\* A loop that takes every other result.
NextCandidate_SkipOne(k) == k + 2

\* Line 126: the for loop takes the results in list order.
NextCandidate(k) == k + 1

\* What image_finder_agent returns for an accepted candidate.
ImageArtifact(image_url) == ImageMarkup(escape(image_url))

\* image_finder_agent without the else branch of lines 140-141.
NoItemsReturn_FallsThrough == NONE

\* What image_finder_agent returns when the search result has no "items".
NoItemsReturn == EMPTY

\* What image_finder_agent returns when the for loop ends without a
\* return: the function falls off its end.
ExhaustedReturn == NONE

----------------------------------------------------------------------------
(* create_presentation *)

Init ==
    /\ state = get_initial_state(InputText)
    /\ memory = EmptyMemory
    /\ response = UNBOUND
    /\ next_agent = ""
    /\ pc = "orchestrator"
    /\ result = UNBOUND
    /\ error = ""
    /\ slides = <<>>
    /\ i = 0
    /\ enriched = <<>>
    /\ items = <<>>
    /\ idx = 0
    /\ judged = <<>>
    /\ reply = UNBOUND
    /\ genCalls = 0
    /\ searchCalls = 0
    /\ retries = 0

enricherLocals == <<slides, i, enriched>>

finderLocals == <<items, idx, judged>>

counters == <<genCalls, searchCalls, retries>>

\* Line 469: the step's response is appended and the loop iterates.
UpdateMemory(content) ==
    /\ memory' = MemoryAppend(memory, "assistant", content)
    /\ pc' = "orchestrator"
    /\ reply' = UNBOUND

\* An except branch that hands back what has been built so far.
Break_ReturnsPartial(e) ==
    /\ pc' = "returned"
    /\ result' = state.enriched_slides
    /\ error' = e

\* Lines 471-473: the exception e is caught, the loop is left and the
\* function ends without a return value.
Break(e) ==
    /\ pc' = "aborted"
    /\ result' = NONE
    /\ error' = e

\* An exception e that nothing catches leaves create_presentation.
Raise(e) ==
    /\ pc' = "raised"
    /\ result' = result
    /\ error' = e

\* Line 371: the orchestrator's answer d is taken verbatim and the
\* iteration for it starts.  The loop has no iteration cap; the model stops
\* asking after MaxIterations iterations.
Decide(d) ==
    /\ pc = "orchestrator"
    /\ memory.len < MaxIterations
    /\ next_agent' = d

\* Line 371 is outside the try: a failing orchestrator call is not caught.
OrchestratorRaises ==
    /\ pc = "orchestrator"
    /\ memory.len < MaxIterations
    /\ Raise("service error in orchestrator_agent")
    /\ reply' = Fault
    /\ UNCHANGED <<state, memory, response, next_agent, enricherLocals,
                   finderLocals, counters>>

\* Lines 375-409.
EndProcess ==
    /\ Decide(END)
    /\ IF Incomplete(state)
       THEN /\ memory' = MemoryAppend(memory, "user", CompletionNote(state))
            /\ pc' = "orchestrator"
            /\ UNCHANGED <<result, error>>
       ELSE IF AssemblyParses(state)
       THEN /\ pc' = "returned"
            /\ result' = Assemble(state)
            /\ error' = error
            /\ memory' = memory
       ELSE /\ Raise("ET.fromstring failed in the assembly")
            /\ memory' = memory
    /\ genCalls' = 0 /\ searchCalls' = 0 /\ retries' = 0
    /\ reply' = UNBOUND
    /\ UNCHANGED <<state, response, enricherLocals, finderLocals>>

\* One pass of the loop of lines 307-316, and lines 418-419 and 469 when
\* it returns.  calls and failed count this step's earlier passes.
SlideCreatorPass(calls, failed) ==
    \E a \in OutlineAnswers \cup {Fault} :
      /\ genCalls' = calls + 1
      /\ IF a = Fault
         THEN /\ Break("service error")
              /\ reply' = a
              /\ retries' = failed
              /\ UNCHANGED <<state, memory, response>>
         ELSE IF ~Parseable(a)
         THEN /\ failed < MaxRetry
              /\ retries' = failed + 1
              /\ pc' = "slide_creator"
              /\ reply' = a
              /\ UNCHANGED <<state, memory, response, result, error>>
         ELSE /\ state' = [state EXCEPT !.slides = a]
              /\ response' = a
              /\ UpdateMemory(a)
              /\ retries' = failed
              /\ UNCHANGED <<result, error>>

\* Lines 413-415: the decision and the first pass.
SlideCreator ==
    /\ Decide(CREATE_SLIDES)
    /\ SlideCreatorPass(0, 0)
    /\ searchCalls' = 0
    /\ UNCHANGED <<enricherLocals, finderLocals>>

\* A further pass after an unparsable answer.
SlideCreatorRetry ==
    /\ pc = "slide_creator"
    /\ SlideCreatorPass(genCalls, retries)
    /\ UNCHANGED <<next_agent, searchCalls, enricherLocals, finderLocals>>

\* An enrichment that uses up the outline: the slides slot is cleared when
\* the enriched slides are stored.
EnricherReturns_ConsumesOutline(children) ==
    LET ret == Xml("slides", <<>>, children)
    IN  /\ state' = [state EXCEPT !.enriched_slides = ret, !.slides = EMPTY]
        /\ response' = ret
        /\ UpdateMemory(ret)
        /\ UNCHANGED <<result, error>>
        /\ slides' = <<>> /\ i' = 0 /\ enriched' = <<>>

\* Line 268 and lines 426-427, 469: slide_enricher_agent returns.
EnricherReturns(children) ==
    LET ret == Xml("slides", <<>>, children)
    IN  /\ state' = [state EXCEPT !.enriched_slides = ret]
        /\ response' = ret
        /\ UpdateMemory(ret)
        /\ UNCHANGED <<result, error>>
        /\ slides' = <<>> /\ i' = 0 /\ enriched' = <<>>

\* Lines 421-423 and 217-218: the decision; the outline is parsed before
\* anything else.
SlideEnricher ==
    /\ Decide(ENRICH_SLIDES)
    /\ IF ~Parseable(state.slides)
       THEN /\ Break("ET.fromstring failed on the outline")
            /\ reply' = UNBOUND
            /\ UNCHANGED <<state, memory, response, enricherLocals>>
       ELSE IF Len(state.slides.c) = 0
       THEN EnricherReturns(<<>>)
       ELSE /\ slides' = state.slides.c
            /\ i' = 1
            /\ enriched' = <<>>
            /\ pc' = "slide_enricher"
            /\ reply' = UNBOUND
            /\ UNCHANGED <<state, memory, response, result, error>>
    /\ genCalls' = 0 /\ searchCalls' = 0 /\ retries' = 0
    /\ UNCHANGED finderLocals

\* An enrichment whose except branch starts the whole outline over: after
\* an unparsable answer the sections made so far are dropped and entry 1 is
\* generated again.
SlideEnricherCall_RestartsOutline ==
    /\ pc = "slide_enricher"
    /\ \E a \in SectionAnswers(slides[i]) \cup {Fault} :
         /\ genCalls' = genCalls + 1
         /\ IF a = Fault
            THEN /\ Break("service error")
                 /\ reply' = a
                 /\ UNCHANGED <<state, memory, response, retries, enricherLocals>>
            ELSE IF ~Parseable(a)
            THEN /\ retries < MaxRetry
                 /\ retries' = retries + 1
                 /\ reply' = a
                 /\ i' = 1
                 /\ enriched' = <<>>
                 /\ UNCHANGED <<state, memory, response, result, error, pc, slides>>
            ELSE IF i = Len(slides)
            THEN /\ EnricherReturns(Append(enriched, a))
                 /\ retries' = retries
            ELSE /\ i' = i + 1
                 /\ reply' = a
                 /\ enriched' = Append(enriched, a)
                 /\ UNCHANGED <<state, memory, response, result, error, pc, retries, slides>>
    /\ UNCHANGED <<next_agent, finderLocals, searchCalls>>

\* An enrichment that stores the sections made so far when the Generation
\* Port call raises.
SlideEnricherCall_KeepsPartial ==
    /\ pc = "slide_enricher"
    /\ \E a \in SectionAnswers(slides[i]) \cup {Fault} :
         /\ genCalls' = genCalls + 1
         /\ IF a = Fault
            THEN /\ Break("service error")
                 /\ reply' = a
                 /\ state' = [state EXCEPT
                                 !.enriched_slides = Xml("slides", <<>>, enriched)]
                 /\ UNCHANGED <<memory, response, retries, enricherLocals>>
            ELSE IF ~Parseable(a)
            THEN /\ retries < MaxRetry
                 /\ retries' = retries + 1
                 /\ reply' = a
                 /\ UNCHANGED <<state, memory, response, result, error, pc, enricherLocals>>
            ELSE IF i = Len(slides)
            THEN /\ EnricherReturns(Append(enriched, a))
                 /\ retries' = retries
            ELSE /\ i' = i + 1
                 /\ reply' = a
                 /\ enriched' = Append(enriched, a)
                 /\ UNCHANGED <<state, memory, response, result, error, pc, retries, slides>>
    /\ UNCHANGED <<next_agent, finderLocals, searchCalls>>

\* Lines 255-266: one Generation Port call for entry i.
SlideEnricherCall ==
    /\ pc = "slide_enricher"
    /\ \E a \in SectionAnswers(slides[i]) \cup {Fault} :
         /\ genCalls' = genCalls + 1
         /\ IF a = Fault
            THEN /\ Break("service error")
                 /\ reply' = a
                 /\ UNCHANGED <<state, memory, response, retries, enricherLocals>>
            ELSE IF ~Parseable(a)
            THEN /\ retries < MaxRetry
                 /\ retries' = retries + 1
                 /\ reply' = a
                 /\ UNCHANGED <<state, memory, response, result, error, pc, enricherLocals>>
            ELSE IF i = Len(slides)
            THEN /\ EnricherReturns(Append(enriched, a))
                 /\ retries' = retries
            ELSE /\ i' = i + 1
                 /\ reply' = a
                 /\ enriched' = Append(enriched, a)
                 /\ UNCHANGED <<state, memory, response, result, error, pc, retries, slides>>
    /\ UNCHANGED <<next_agent, finderLocals, searchCalls>>

\* Lines 429-440 and 469.
QuizCreator ==
    /\ Decide(CREATE_QUIZ)
    /\ \E a \in QuizAnswers \cup {Fault} :
         LET out == quiz_creator_agent(state, a)
         IN  /\ genCalls' = out.gen
             /\ IF out.raised
                THEN /\ Break("service error")
                     /\ reply' = a
                     /\ UNCHANGED <<state, memory, response>>
                ELSE /\ IF out.ret = EMPTY
                        THEN /\ response' = QuizFailed
                             /\ state' = state
                        ELSE /\ response' = out.ret
                             /\ state' = [state EXCEPT !.quiz = out.ret]
                     /\ UpdateMemory(response')
                     /\ UNCHANGED <<result, error>>
    /\ searchCalls' = 0 /\ retries' = 0
    /\ UNCHANGED <<enricherLocals, finderLocals>>

\* Lines 442-453 and 469.
TitleCreator ==
    /\ Decide(CREATE_TITLE)
    /\ \E a \in TitleAnswers \cup {Fault} :
         LET out == title_creator_agent(state, a)
         IN  /\ genCalls' = out.gen
             /\ IF out.raised
                THEN /\ Break("service error")
                     /\ reply' = a
                     /\ UNCHANGED <<state, memory, response>>
                ELSE /\ IF out.ret = EMPTY
                        THEN /\ response' = TitleFailed
                             /\ state' = state
                        ELSE /\ response' = out.ret
                             /\ state' = [state EXCEPT !.title = out.ret]
                     /\ UpdateMemory(response')
                     /\ UNCHANGED <<result, error>>
    /\ searchCalls' = 0 /\ retries' = 0
    /\ UNCHANGED <<enricherLocals, finderLocals>>

\* Line 457: image_finder_agent returned ret and it is assigned to response.
FinderReturns(ret) ==
    /\ response' = ret
    /\ pc' = "image_check"
    /\ UNCHANGED <<state, memory, result, error>>

\* Lines 455-457 with 91-125 and 140-141: the decision, the precondition,
\* the query, the search.
ImageFinder ==
    /\ Decide(FIND_IMAGE)
    /\ IF state.enriched_slides = EMPTY
       THEN /\ FinderReturns(EMPTY)
            /\ reply' = UNBOUND
            /\ genCalls' = 0 /\ searchCalls' = 0
            /\ UNCHANGED <<items, idx>>
       ELSE \E query \in QueryAnswers \cup {Fault} :
              /\ genCalls' = 1
              /\ IF query = Fault
                 THEN /\ Break("service error")
                      /\ reply' = Fault
                      /\ searchCalls' = 0
                      /\ UNCHANGED <<state, memory, response, items, idx>>
                 ELSE \E found \in SearchAnswers \cup {SearchFault} :
                        /\ searchCalls' = 1
                        /\ IF found.raised
                           THEN /\ Break("search error")
                                /\ reply' = Fault
                                /\ UNCHANGED <<state, memory, response, items, idx>>
                           ELSE IF ~found.has_items
                           THEN /\ FinderReturns(NoItemsReturn)
                                /\ reply' = UNBOUND
                                /\ UNCHANGED <<items, idx>>
                           ELSE /\ items' = found.items
                                /\ idx' = 1
                                /\ pc' = "image_finder"
                                /\ reply' = UNBOUND
                                /\ UNCHANGED <<state, memory, response, result, error>>
    /\ retries' = 0
    /\ UNCHANGED <<enricherLocals, judged>>

\* Lines 126-139: the candidate at idx is judged.
ImageJudge ==
    /\ pc = "image_finder"
    /\ \E a \in JudgeAnswers \cup {Fault} :
         LET image_ok == image_checker_agent(a)
         IN  /\ genCalls' = genCalls + 1
             /\ reply' = a
             /\ judged' = Append(judged, [cand |-> idx, ok |-> image_ok])
             /\ IF image_ok
                THEN /\ FinderReturns(ImageArtifact(items[idx]))
                     /\ idx' = idx
                ELSE IF NextCandidate(idx) > Len(items)
                THEN /\ FinderReturns(ExhaustedReturn)
                     /\ idx' = idx
                ELSE /\ idx' = NextCandidate(idx)
                     /\ UNCHANGED <<state, memory, response, result, error, pc>>
    /\ UNCHANGED <<next_agent, enricherLocals, items, searchCalls, retries>>

\* Lines 459-470; the locals of image_finder_agent are gone.
ImageUpdate ==
    /\ pc = "image_check"
    /\ IF response = EMPTY
       THEN /\ response' = ImageFailed
            /\ state' = state
       ELSE /\ response' = response
            /\ state' = [state EXCEPT !.image = response]
    /\ UpdateMemory(response')
    /\ items' = <<>> /\ idx' = 0 /\ judged' = <<>>
    /\ UNCHANGED <<next_agent, result, error, enricherLocals, counters>>

\* No branch of lines 413-466 matches: line 469 reads `response`, which is
\* unbound unless an earlier iteration assigned it.
Unrecognized ==
    /\ \E d \in Decisions \ Agent : Decide(d)
    /\ IF response = UNBOUND
       THEN /\ Break("response is unbound")
            /\ reply' = UNBOUND
            /\ memory' = memory
       ELSE /\ UpdateMemory(response)
            /\ UNCHANGED <<result, error>>
    /\ genCalls' = 0 /\ searchCalls' = 0 /\ retries' = 0
    /\ UNCHANGED <<state, response, enricherLocals, finderLocals>>

Next ==
    \/ OrchestratorRaises
    \/ EndProcess
    \/ SlideCreator
    \/ SlideCreatorRetry
    \/ SlideEnricher
    \/ SlideEnricherCall
    \/ QuizCreator
    \/ TitleCreator
    \/ ImageFinder
    \/ ImageJudge
    \/ ImageUpdate
    \/ Unrecognized

Spec == Init /\ [][Next]_vars

----------------------------------------------------------------------------
(* Properties *)

\* The step is an iteration of the loop for the orchestrator's answer d.
Decided(d) ==
    /\ pc = "orchestrator"
    /\ next_agent' = d
    /\ error' # "service error in orchestrator_agent"

\* The candidates of the current search were all judged and all rejected.
AllRejected ==
    /\ items # <<>>
    /\ Len(judged) = Len(items)
    /\ \A j \in 1..Len(judged) : ~judged[j].ok

\* The search of the current step was made and found nothing.
NothingFound == searchCalls = 1 /\ items = <<>> /\ judged = <<>>

\* C1: a document is returned only from a state whose enriched_slides,
\* title, image and quiz are all non-empty; an "End process" decision taken
\* while one of the four is "" does not end the loop, changes no slot and
\* leaves the loop at its next orchestrator call.
C1_EndNeedsAllFour ==
    /\ [](pc = "returned" =>
            /\ state.enriched_slides # EMPTY /\ state.title # EMPTY
            /\ state.image # EMPTY /\ state.quiz # EMPTY
            /\ result = Assemble(state))
    /\ [][(/\ Decided(END)
           /\ \E s \in {"enriched_slides", "title", "image", "quiz"} : state[s] = EMPTY)
          => /\ pc' = "orchestrator"
             /\ state' = state
             /\ result' = UNBOUND
             /\ error' = ""]_vars

\* An "End process" decision came while only the quiz was missing, and the
\* loop is back at the orchestrator call.
C1_Witness ==
    /\ pc = "orchestrator"
    /\ next_agent = END
    /\ memory.last = [role |-> "user", content |-> NoteQuiz]
    /\ state.enriched_slides # EMPTY /\ state.title # EMPTY /\ state.image # EMPTY
    /\ state.quiz = EMPTY

\* C2: an "End process" decision taken while enriched_slides, title, image
\* and quiz are all non-empty ends the build with the assembled document.
C2_EndCompleteReturns ==
    [][(Decided(END) /\ ~Incomplete(state))
          => /\ pc' = "returned"
             /\ result' = Assemble(state)
             /\ error' = ""]_vars

\* C3: a decision that is none of the six names aborts the build: no
\* document, no further orchestrator call.
C3_UnrecognizedAborts ==
    [][(\E d \in Decisions \ Agent : Decided(d))
          => /\ pc' = "aborted"
             /\ result' = NONE]_vars

\* C4: when the search gave candidates and every one was rejected, the
\* image step returns "", the image slot keeps its value, a corrective note
\* is recorded and one search was made.
C4_AllRejectedReturnsEmpty ==
    /\ [](pc = "image_check" /\ AllRejected => response = EMPTY /\ searchCalls = 1)
    /\ [][(pc = "image_check" /\ AllRejected)
          => /\ state' = state
             /\ memory' = MemoryAppend(memory, "assistant", ImageFailed)
             /\ pc' = "orchestrator"]_vars

\* C5: with enriched_slides empty, the title, quiz and image steps return ""
\* without a Generation Port or Search Port call; the loop changes no slot,
\* records the step's corrective note and goes on.
C5_NotReadyIsNoOp ==
    [][/\ (Decided(CREATE_TITLE) /\ state.enriched_slides = EMPTY)
          => /\ genCalls' = 0 /\ searchCalls' = 0
             /\ state' = state
             /\ memory' = MemoryAppend(memory, "assistant", TitleFailed)
             /\ pc' = "orchestrator"
       /\ (Decided(CREATE_QUIZ) /\ state.enriched_slides = EMPTY)
          => /\ genCalls' = 0 /\ searchCalls' = 0
             /\ state' = state
             /\ memory' = MemoryAppend(memory, "assistant", QuizFailed)
             /\ pc' = "orchestrator"
       /\ (Decided(FIND_IMAGE) /\ state.enriched_slides = EMPTY)
          => /\ genCalls' = 0 /\ searchCalls' = 0
             /\ state' = state
             /\ response' = EMPTY
             /\ pc' = "image_check"
       /\ (pc = "image_check" /\ state.enriched_slides = EMPTY)
          => /\ genCalls' = 0 /\ searchCalls' = 0
             /\ state' = state
             /\ memory' = MemoryAppend(memory, "assistant", ImageFailed)
             /\ pc' = "orchestrator"]_vars

\* The title step ran with enriched_slides empty: no port was called, the
\* note is the last memory entry and the loop goes on.
C5_Witness ==
    /\ pc = "orchestrator"
    /\ next_agent = CREATE_TITLE
    /\ state.enriched_slides = EMPTY
    /\ state.title = EMPTY
    /\ genCalls = 0 /\ searchCalls = 0
    /\ memory.last = [role |-> "assistant", content |-> TitleFailed]

\* C6: a "Slide enricher" decision with the outline slot empty changes no
\* slot, records a note and leaves the loop at its next orchestrator call.
C6_EnricherNotReadyRecovers ==
    [][(Decided(ENRICH_SLIDES) /\ state.slides = EMPTY)
          => /\ pc' = "orchestrator"
             /\ state' = state
             /\ memory'.len = memory.len + 1]_vars

\* C7: text that does not parse is never written into the slides,
\* enriched_slides, title or quiz slot.
C7_OnlyParsedTextInSlots ==
    \A s \in {"slides", "enriched_slides", "title", "quiz"} :
        state[s] = EMPTY \/ Parseable(state[s])

\* C8: the quiz slot is empty or holds a quiz of exactly three
\* question/answer pairs: an answer that is a quiz of another size is
\* never in the slot.
C8_QuizHasThreePairs ==
    ~(/\ Parseable(state.quiz)
      /\ state.quiz.tag = "quiz"
      /\ Len(state.quiz.c) # QuizSize)

\* C9: candidates are judged in list order without gaps, a candidate is
\* judged only after all earlier ones were rejected, none is judged after
\* an accepted one, and the step returns the first accepted candidate as
\* the image element holding its link.
C9_FirstAcceptedInOrder ==
    pc \in {"image_finder", "image_check"} =>
        /\ Len(judged) <= Len(items)
        /\ \A j \in 1..Len(judged) : judged[j].cand = j
        /\ \A j \in 1..(Len(judged) - 1) : ~judged[j].ok
        /\ pc = "image_finder" =>
              /\ idx = Len(judged) + 1
              /\ \A j \in 1..Len(judged) : ~judged[j].ok
        /\ (pc = "image_check" /\ judged # <<>> /\ judged[Len(judged)].ok) =>
              response = Xml("image", items[Len(judged)], <<>>)
        /\ (pc = "image_check" /\ judged # <<>> /\ ~judged[Len(judged)].ok) =>
              Len(judged) = Len(items)

\* Of three candidates the first was rejected and the second accepted: the
\* step returned the second and the third was not judged.
C9_Witness ==
    /\ pc = "image_check"
    /\ Len(items) = 3
    /\ Len(judged) = 2
    /\ ~judged[1].ok /\ judged[2].ok
    /\ response = Xml("image", items[2], <<>>)

C11_AssembledInOrder ==
    pc = "returned"
        => /\ Parseable(result)
           /\ result.tag = state.enriched_slides.tag
           /\ result.c = <<state.title, state.image>>
                             \o state.enriched_slides.c \o <<state.quiz>>

\* A document was returned for a state with two different sections.
C11_Witness ==
    /\ pc = "returned"
    /\ Len(state.enriched_slides.c) = 2
    /\ state.enriched_slides.c[1] # state.enriched_slides.c[2]
    /\ Len(result.c) = 5

\* C12: when the enrichment of a non-empty outline returns, enriched_slides
\* has as many sections as the outline has entries and section j carries
\* the title of outline entry j, for every j.
C12_SectionsMatchOutline ==
    [][(pc = "slide_enricher" /\ pc' = "orchestrator")
          => /\ Len(state'.enriched_slides.c) = Len(slides)
             /\ \A j \in 1..Len(slides) :
                    state'.enriched_slides.c[j].text = slides[j].text]_vars

\* C13: a failure of the port call made by the orchestrator or by a step,
\* the judgment of an image candidate excepted, ends the build: no slot
\* changes, the build is left aborted or with the exception raised, what
\* it hands back is no document, and nothing runs after that.
C13_ServiceFailureAborts ==
    /\ [][(reply' = Fault /\ pc # "image_finder")
             => /\ pc' \in {"aborted", "raised"}
                /\ error' # ""
                /\ state' = state
                /\ ~Parseable(result')]_vars
    /\ [](pc \in {"aborted", "raised"} => ~Parseable(result))
    /\ [][pc \notin {"aborted", "raised"}]_vars

\* The quiz completion failed with slides and enriched slides already
\* built: the build is aborted and hands back None.
C13_Witness ==
    /\ pc = "aborted"
    /\ next_agent = CREATE_QUIZ
    /\ reply = Fault
    /\ error = "service error"
    /\ state.enriched_slides # EMPTY
    /\ state.quiz = EMPTY
    /\ result = NONE

\* The slot that the branch of lines 413-466 for decision d assigns.
SlotOf(d) ==
    CASE d = CREATE_SLIDES -> "slides"
      [] d = ENRICH_SLIDES -> "enriched_slides"
      [] d = CREATE_QUIZ -> "quiz"
      [] d = CREATE_TITLE -> "title"
      [] d = FIND_IMAGE -> "image"
      [] OTHER -> "none"

\* C14: the build starts with every slot but input_text empty, input_text
\* keeps its initial value for the whole build, and an iteration changes
\* no slot other than the one of the step it runs; running a step again
\* writes that slot only.
C14_StepWritesOwnSlotOnly ==
    /\ \A s \in DOMAIN state \ {"input_text"} : state[s] = EMPTY
    /\ [](state.input_text = InputText)
    /\ [][\A s \in DOMAIN state :
              state'[s] # state[s] => s = SlotOf(next_agent')]_vars

\* The slide creator ran again after the enrichment: slides holds the new
\* outline of two entries, enriched_slides still the one section made from
\* the first outline.
C14_Witness ==
    /\ pc = "orchestrator"
    /\ next_agent = CREATE_SLIDES
    /\ state.slides = Outline(2)
    /\ Parseable(state.enriched_slides)
    /\ Len(state.enriched_slides.c) = 1
    /\ state.input_text = InputText

\* C15: whenever enriched_slides is non-empty so is slides, and whenever
\* title, image or quiz is non-empty so is enriched_slides.
C15_SlotsFilledInOrder ==
    /\ state.enriched_slides # EMPTY => state.slides # EMPTY
    /\ state.title # EMPTY => state.enriched_slides # EMPTY
    /\ state.image # EMPTY => state.enriched_slides # EMPTY
    /\ state.quiz # EMPTY => state.enriched_slides # EMPTY

\* The quiz is the first of title, image and quiz to be filled, on top of
\* slides and enriched slides.
C15_Witness ==
    /\ state.quiz # EMPTY
    /\ state.title = EMPTY
    /\ state.image = EMPTY
    /\ state.enriched_slides # EMPTY
    /\ state.slides # EMPTY

\* C16: when End process is decided while one of enriched_slides, title,
\* image, quiz is empty, the iteration appends exactly one note to the
\* memory, with role user, asking for the first empty one in the order
\* enriched_slides, title, image, quiz; it changes no slot and the loop
\* goes on with the next orchestrator call.
C16_IncompleteEndAddsOneNote ==
    [][(/\ Decided(END)
        /\ \/ state.enriched_slides = EMPTY
           \/ state.title = EMPTY
           \/ state.image = EMPTY
           \/ state.quiz = EMPTY)
          => /\ memory'.len = memory.len + 1
             /\ memory'.last.role = "user"
             /\ state.enriched_slides = EMPTY
                    => memory'.last.content = NoteEnriched
             /\ (state.enriched_slides # EMPTY /\ state.title = EMPTY)
                    => memory'.last.content = NoteTitle
             /\ (state.enriched_slides # EMPTY /\ state.title # EMPTY
                     /\ state.image = EMPTY)
                    => memory'.last.content = NoteImage
             /\ (state.enriched_slides # EMPTY /\ state.title # EMPTY
                     /\ state.image # EMPTY)
                    => memory'.last.content = NoteQuiz
             /\ state' = state
             /\ pc' = "orchestrator"
             /\ result' = result
             /\ error' = ""]_vars

\* End process was decided with the title and the quiz both empty and the
\* image found: the note asks for the title.
C16_Witness ==
    /\ pc = "orchestrator"
    /\ next_agent = END
    /\ state.enriched_slides # EMPTY
    /\ state.image # EMPTY
    /\ state.title = EMPTY
    /\ state.quiz = EMPTY
    /\ memory.last = [role |-> "user", content |-> NoteTitle]

\* C17: while the outline is being enriched, entry i is the one sent to
\* the Generation Port and the entries before it have each contributed
\* exactly one parsed section.  An unparsable answer leaves i and the
\* sections made so far as they are, so the next call is for entry i
\* again; only a parsed answer appends one section and moves on to entry
\* i + 1; i never goes back.
C17_RetryOnlyFailedEntry ==
    /\ [](pc = "slide_enricher"
             => /\ i \in 1..Len(slides)
                /\ Len(enriched) = i - 1
                /\ \A j \in 1..Len(enriched) : Parseable(enriched[j]))
    /\ [][(pc = "slide_enricher" /\ pc' = "slide_enricher")
             => /\ genCalls' = genCalls + 1
                /\ slides' = slides
                /\ IF Parseable(reply')
                   THEN /\ i' = i + 1
                        /\ enriched' = Append(enriched, reply')
                        /\ retries' = retries
                   ELSE /\ i' = i
                        /\ enriched' = enriched
                        /\ retries' = retries + 1]_vars
    /\ [][(pc = "slide_enricher" /\ pc' = "orchestrator")
             => /\ i = Len(slides)
                /\ Len(state'.enriched_slides.c) = Len(slides)
                /\ SubSeq(state'.enriched_slides.c, 1, Len(enriched)) = enriched]_vars

\* The answer for entry 2 did not parse after entry 1 had given its
\* section: the enrichment is still at entry 2 with that one section.
C17_Witness ==
    /\ pc = "slide_enricher"
    /\ i = 2
    /\ Len(enriched) = 1
    /\ retries = 1
    /\ reply = Garbage

\* C18: each judgment call judges the current candidate once; the
\* candidate is accepted exactly when the answer is the text "True".  Any
\* other answer and a failure of the call reject this candidate only: no
\* error is recorded, no slot changes, and the step goes on with the next
\* candidate, or returns when this was the last one.
C18_AcceptedIffExactlyTrue ==
    [][pc = "image_finder"
          => /\ genCalls' = genCalls + 1
             /\ Len(judged') = Len(judged) + 1
             /\ judged'[Len(judged')].cand = idx
             /\ judged'[Len(judged')].ok <=> reply' = Str(<<"True">>)
             /\ error' = ""
             /\ state' = state
             /\ IF reply' = Str(<<"True">>)
                THEN /\ pc' = "image_check"
                     /\ response' = ImageArtifact(items[idx])
                ELSE IF idx < Len(items)
                THEN /\ pc' = "image_finder"
                     /\ idx' = idx + 1
                     /\ items' = items
                ELSE pc' = "image_check"]_vars

\* The judgment of the first candidate failed: the failure is swallowed and
\* the second candidate is the next to be judged.
C18_Witness ==
    /\ pc = "image_finder"
    /\ idx = 2
    /\ reply = Fault
    /\ judged = <<[cand |-> 1, ok |-> FALSE]>>
    /\ error = ""

\* C20: no Generation Port call of the enrichment writes a slot before the
\* last entry has parsed, and when such a call raises, whatever the number
\* of sections already made, every slot keeps its value (enriched_slides
\* the one it had before the step), nothing is added to the memory and the
\* build is aborted, handing back None.
C20_EnrichmentAllOrNothing ==
    /\ [][(pc = "slide_enricher" /\ pc' # "orchestrator") => state' = state]_vars
    /\ [][(pc = "slide_enricher" /\ reply' = Fault)
             => /\ state' = state
                /\ memory' = memory
                /\ pc' = "aborted"
                /\ result' = NONE]_vars

\* The call for entry 2 of a second outline raised after entry 1 had given
\* its section: enriched_slides still holds the one section of the earlier
\* enrichment, not the section just made, and the build is aborted.
C20_Witness ==
    /\ pc = "aborted"
    /\ next_agent = ENRICH_SLIDES
    /\ reply = Fault
    /\ i = 2
    /\ Len(enriched) = 1
    /\ Parseable(state.enriched_slides)
    /\ state.enriched_slides.c # enriched
    /\ result = NONE

-----------------------------------------------------------------------------
(* The build under a cooperating environment.  The orchestrator follows    *)
(* its instructions (lines 321-349): it names a step whose slot is still   *)
(* "" and whose input is there, and End process once none of the four      *)
(* slots tested at line 377 is "".  No port call raises.  The program is   *)
(* one sequential thread and every call is awaited, so a step that can be  *)
(* taken is taken.                                                         *)

\* Decision d follows the instructions of the orchestrator's prompt in
\* state s.
Directed(s, d) ==
    \/ d = CREATE_SLIDES /\ s.slides = EMPTY
    \/ d = ENRICH_SLIDES /\ s.slides # EMPTY /\ s.enriched_slides = EMPTY
    \/ d = CREATE_TITLE /\ s.enriched_slides # EMPTY /\ s.title = EMPTY
    \/ d = FIND_IMAGE /\ s.enriched_slides # EMPTY /\ s.image = EMPTY
    \/ d = CREATE_QUIZ /\ s.enriched_slides # EMPTY /\ s.quiz = EMPTY
    \/ d = END /\ ~Incomplete(s)

\* The step in progress got an answer, not an exception, and its decision,
\* if it starts with one, is a directed one.
Cooperating ==
    /\ reply' # Fault
    /\ pc = "orchestrator" => Directed(state, next_agent')

FairNext ==
    \/ EndProcess /\ Cooperating
    \/ SlideCreator /\ Cooperating
    \/ SlideCreatorRetry /\ Cooperating
    \/ SlideEnricher /\ Cooperating
    \/ SlideEnricherCall /\ Cooperating
    \/ QuizCreator /\ Cooperating
    \/ TitleCreator /\ Cooperating
    \/ ImageFinder /\ Cooperating
    \/ ImageJudge /\ Cooperating
    \/ ImageUpdate /\ Cooperating

FairSpec == Init /\ [][FairNext]_vars /\ WF_vars(FairNext)

\* The run is cut: MaxIterations iterations have appended to the memory.
IterationsSpent == pc = "orchestrator" /\ memory.len = MaxIterations

\* C21: with the orchestrator directed as above, no port call raising and
\* every enabled step taken, the build eventually returns the assembled
\* document (unless the run is cut at MaxIterations iterations first).
C21_EventuallyReturns ==
    <>(pc = "returned" \/ IterationsSpent)

====
